---------------------------- MODULE Spec2Model ----------------------------
(***************************************************************************)
(* Model of the LXC dev-container tooling:                                 *)
(*   - src/subagents/devcontainer-manager.py : DevContainerManager and the *)
(*     command-line entry point main()                                     *)
(*   - src/web/app.py : the Flask / Socket.IO dashboard that shells out to *)
(*     the command-line tool                                               *)
(*                                                                         *)
(* Text is modelled as a sequence of elements: the two whitespace          *)
(* characters " " and "\n", and words (maximal runs of non-whitespace      *)
(* characters).  Python values are tagged records (py |-> "str", ...).     *)
(***************************************************************************)
EXTENDS Integers, Sequences, FiniteSets, TLC

VARIABLES
    runcmd,     \* one run_command call in progress: its clock and its result
    cli,        \* the last command-line invocation and what it printed
    call,       \* the last direct call of a DevContainerManager method
    runtime,    \* the container runtime's listing, as the web server sees it
    clients,    \* the connected Socket.IO clients (sids)
    outbox,     \* per sid, the events emitted to it since it connected
    last,       \* the last web handler that ran, with what it was given
    budget,     \* number of web handler runs still admitted by the model
    server,     \* the web server's concurrency mode and its requests in progress
    creators    \* the create_container calls running side by side

vars == <<runcmd, cli, call, runtime, clients, outbox, last, budget, server, creators>>

-----------------------------------------------------------------------------
(* Bounds of the model *)

\* longest external process, in time units (beyond the 30-unit timeout)
MaxDur == 32
\* longest arbitrary stdout text of `pct status`, in elements
MaxStatusLen == 3
\* most lines in an arbitrary `pct list` output
MaxListLines == 2
\* web handler runs explored
MaxHandlerRuns == 3

-----------------------------------------------------------------------------
(* Text: Python str *)

SP == " "
NL == "\n"

IsWs(e) == e \in {SP, NL}

\* the numeric ids that occur in the modelled listings
VmidPool == {101, 102, 1001, 1002, 1003, 9000, 10010}

\* re.match(r'^\d+', ...) on a word: the vocabulary's words that start with a
\* digit are the decimal ids
StartsWithDigit(e) == e \in {ToString(n) : n \in VmidPool}

RECURSIVE LStrip(_)
LStrip(t) == IF t = <<>> \/ ~IsWs(Head(t)) THEN t ELSE LStrip(Tail(t))

RECURSIVE RStrip(_)
RStrip(t) ==
    IF t = <<>> \/ ~IsWs(t[Len(t)]) THEN t ELSE RStrip(SubSeq(t, 1, Len(t) - 1))

\* str.strip()
Strip(t) == RStrip(LStrip(t))

\* str.split(sep): n separators give n + 1 pieces, empty pieces kept
RECURSIVE SplitOn(_, _)
SplitOn(t, sep) ==
    IF \A i \in 1..Len(t) : t[i] # sep
    THEN <<t>>
    ELSE LET i == CHOOSE k \in 1..Len(t) : t[k] = sep /\ \A j \in 1..(k - 1) : t[j] # sep
         IN  <<SubSeq(t, 1, i - 1)>> \o SplitOn(SubSeq(t, i + 1, Len(t)), sep)

\* str.split('\n')
SplitNL(t) == SplitOn(t, NL)

\* str.split(): the words, each as a str
SplitWs(t) ==
    LET ws == SelectSeq(t, LAMBDA e : ~IsWs(e))
    IN  [i \in 1..Len(ws) |-> <<ws[i]>>]

\* re.match(r'^\d+', line)
ReMatchDigits(line) == line # <<>> /\ StartsWithDigit(line[1])

\* lines joined by "\n"
RECURSIVE JoinNL(_)
JoinNL(ls) ==
    IF ls = <<>> THEN <<>>
    ELSE IF Len(ls) = 1 THEN ls[1]
    ELSE ls[1] \o <<NL>> \o JoinNL(Tail(ls))

-----------------------------------------------------------------------------
(* Python values *)

PyStr(t)  == [py |-> "str", v |-> t]
PyNone    == [py |-> "None"]
PyBool(b) == [py |-> "bool", v |-> b]
PyInt(n)  == [py |-> "int", v |-> n]
PyList(s) == [py |-> "list", v |-> s]
PyDict(d) == [py |-> "dict", v |-> d]

\* the result of a call: a value returned, or an exception raised
Returned(v, cmds) == [raised |-> FALSE, value |-> v, exc |-> <<>>, cmds |-> cmds]
Raised(msg, cmds) == [raised |-> TRUE, value |-> PyNone, exc |-> msg, cmds |-> cmds]

-----------------------------------------------------------------------------
(* External processes and DevContainerManager.run_command *)

\* timeout=30 of subprocess.run
Timeout == 30

TimedOutMsg == <<"Command", SP, "timed", SP, "out">>
LaunchErrMsg == <<"OSError">>

\* An external process: whether it can be launched at all, how long it runs,
\* and what it leaves behind when it exits.
Process(launch, dur, rc, out, err) ==
    [launch |-> launch, dur |-> dur, rc |-> rc, out |-> out, err |-> err]

TimeoutResult == [rc |-> -1, out |-> <<>>, err |-> TimedOutMsg]

\* run_command(command, capture_output) -> (returncode, stdout, stderr)
run_command(p, capture_output) ==
    IF ~p.launch
    THEN [rc |-> -1, out |-> <<>>, err |-> LaunchErrMsg]
    ELSE IF capture_output
         THEN IF p.dur > Timeout
              THEN TimeoutResult
              ELSE [rc |-> p.rc, out |-> p.out, err |-> p.err]
         ELSE [rc |-> p.rc, out |-> <<>>, err |-> <<>>]

-----------------------------------------------------------------------------
(* run_command, step by step: the caller's wait on the external process *)

NoProcess == Process(TRUE, 0, 0, <<>>, <<>>)
NoResult == [rc |-> 0, out |-> <<>>, err |-> <<>>]

IdleRunCmd ==
    [pc |-> "idle", capture |-> TRUE, p |-> NoProcess, elapsed |-> 0, ret |-> NoResult]

FailMsg == <<"failed">>

\* the external processes a command may turn out to be
CmdProcesses ==
    {Process(TRUE, d, rc, <<"ok">>, IF rc = 0 THEN <<>> ELSE FailMsg) :
        d \in 0..MaxDur, rc \in {0, 1}}
    \cup {Process(FALSE, 0, 0, <<>>, <<>>)}

\* subprocess.run(...) / subprocess.Popen(...) is entered
RcStart(p, capture_output) ==
    /\ runcmd.pc \in {"idle", "returned"}
    /\ runcmd' = IF p.launch
                 THEN [pc |-> "waiting", capture |-> capture_output, p |-> p,
                       elapsed |-> 0, ret |-> NoResult]
                 ELSE [pc |-> "returned", capture |-> capture_output, p |-> p,
                       elapsed |-> 0, ret |-> run_command(p, capture_output)]
    /\ UNCHANGED <<cli, call, runtime, clients, outbox, last, budget, server, creators>>

\* one time unit passes while the caller waits: communicate(timeout=30) waits
\* no longer than the timeout, Popen.wait() waits as long as the process runs
RcTick ==
    /\ runcmd.pc = "waiting"
    /\ runcmd.elapsed < runcmd.p.dur
    /\ runcmd.capture => runcmd.elapsed < Timeout
    /\ runcmd' = [runcmd EXCEPT !.elapsed = @ + 1]
    /\ UNCHANGED <<cli, call, runtime, clients, outbox, last, budget, server, creators>>

\* the process exits while the caller still waits
RcExit ==
    /\ runcmd.pc = "waiting"
    /\ runcmd.elapsed = runcmd.p.dur
    /\ runcmd' = [runcmd EXCEPT !.pc = "returned",
                                !.ret = IF runcmd.capture
                                        THEN [rc |-> runcmd.p.rc, out |-> runcmd.p.out,
                                              err |-> runcmd.p.err]
                                        ELSE [rc |-> runcmd.p.rc, out |-> <<>>,
                                              err |-> <<>>]]
    /\ UNCHANGED <<cli, call, runtime, clients, outbox, last, budget, server, creators>>

\* subprocess.TimeoutExpired is raised and caught
RcExpire ==
    /\ runcmd.pc = "waiting"
    /\ runcmd.capture
    /\ runcmd.elapsed = Timeout
    /\ runcmd.p.dur > Timeout
    /\ runcmd' = [runcmd EXCEPT !.pc = "returned", !.ret = TimeoutResult]
    /\ UNCHANGED <<cli, call, runtime, clients, outbox, last, budget, server, creators>>

-----------------------------------------------------------------------------
(* The runtime as DevContainerManager meets it: for each external command   *)
(* the process it turns out to be.  Fields:                                 *)
(*   list, ip, status, config, mem, disk, top, free, df, backup, check,     *)
(*   clone, start, auth, version, apt, npm, pip : Process                   *)
(*   authbad : the providers whose `opencode auth login` exits with 1       *)

\* a command issued to the runtime: which one, and for which container
Cmd(c, arg) == [c |-> c, arg |-> arg]

\* self.template_id = "9000"
template_id == <<"9000">>

IndexErrorMsg == <<"list", SP, "index", SP, "out", SP, "of", SP, "range">>

\* the body of the `for line in ...` loop of list_containers, over the
\* remaining lines
RECURSIVE ListLoop(_, _)
ListLoop(lines, env) ==
    IF lines = <<>> THEN [items |-> <<>>, cmds |-> <<>>]
    ELSE
      LET line  == Head(lines)
          rest  == ListLoop(Tail(lines), env)
          parts == SplitWs(line)
      IN  IF ReMatchDigits(line) /\ Len(parts) >= 3 /\ parts[1] # template_id
          THEN LET vmid    == parts[1]
                   status  == parts[2]
                   name    == parts[3]
                   running == status = <<"running">>
                   ip      == IF running
                              THEN Strip(run_command(env.ip, TRUE).out)
                              ELSE <<>>
                   item    == PyDict([vmid |-> PyStr(vmid), name |-> PyStr(name),
                                      status |-> PyStr(status), ip |-> PyStr(ip)])
               IN  [items |-> <<item>> \o rest.items,
                    cmds  |-> (IF running THEN <<Cmd("ip", vmid)>> ELSE <<>>)
                              \o rest.cmds]
          ELSE rest

\* DevContainerManager.list_containers()
list_containers(env) ==
    LET r == run_command(env.list, TRUE)
    IN  IF r.rc # 0
        THEN Returned(PyList(<<>>), <<Cmd("list", <<>>)>>)
        ELSE LET loop == ListLoop(SplitNL(Strip(r.out)), env)
             IN  Returned(PyList(loop.items), <<Cmd("list", <<>>)>> \o loop.cmds)

\* status_out.strip().split('\n')[0].split()[-1] if status_out else "unknown":
\* the status word, or <<>> standing for the IndexError of [-1] on an empty list
ParseStatus(status_out) ==
    IF status_out = <<>> THEN [ok |-> TRUE, status |-> <<"unknown">>]
    ELSE LET words == SplitWs(SplitNL(Strip(status_out))[1])
         IN  IF words = <<>>
             THEN [ok |-> FALSE, status |-> <<>>]
             ELSE [ok |-> TRUE, status |-> words[Len(words)]]

\* x.strip() if x else "N/A"
StripOrNA(x) == IF x # <<>> THEN Strip(x) ELSE <<"N/A">>

\* get_container_info looking the address up whenever a status was reported,
\* running or not
get_container_info_any_status(vmid, env) ==
    LET st == ParseStatus(run_command(env.status, TRUE).out)
        c1 == <<Cmd("status", vmid)>>
    IN  IF ~st.ok THEN Raised(IndexErrorMsg, c1)
        ELSE
          LET running == st.status = <<"running">>
              lookup  == st.status # <<"unknown">>
              ip      == IF lookup THEN Strip(run_command(env.ip, TRUE).out) ELSE <<>>
              config  == run_command(env.config, TRUE).out
              res     == IF running
                         THEN PyDict([memory |->
                                        PyStr(StripOrNA(run_command(env.mem, TRUE).out)),
                                      disk |->
                                        PyStr(StripOrNA(run_command(env.disk, TRUE).out))])
                         ELSE PyDict(<<>>)
          IN  Returned(
                PyDict([vmid |-> PyStr(vmid), status |-> PyStr(st.status),
                        ip |-> PyStr(ip),
                        config |-> PyStr(IF config # <<>> THEN Strip(config) ELSE <<>>),
                        resources |-> res]),
                c1 \o (IF lookup THEN <<Cmd("ip", vmid)>> ELSE <<>>)
                   \o <<Cmd("config", vmid)>>
                   \o (IF running THEN <<Cmd("mem", vmid), Cmd("disk", vmid)>> ELSE <<>>))

\* DevContainerManager.get_container_info(vmid)
get_container_info(vmid, env) ==
    LET st == ParseStatus(run_command(env.status, TRUE).out)
        c1 == <<Cmd("status", vmid)>>
    IN  IF ~st.ok THEN Raised(IndexErrorMsg, c1)
        ELSE
          LET running == st.status = <<"running">>
              ip      == IF running THEN Strip(run_command(env.ip, TRUE).out) ELSE <<>>
              config  == run_command(env.config, TRUE).out
              res     == IF running
                         THEN PyDict([memory |->
                                        PyStr(StripOrNA(run_command(env.mem, TRUE).out)),
                                      disk |->
                                        PyStr(StripOrNA(run_command(env.disk, TRUE).out))])
                         ELSE PyDict(<<>>)
          IN  Returned(
                PyDict([vmid |-> PyStr(vmid), status |-> PyStr(st.status),
                        ip |-> PyStr(ip),
                        config |-> PyStr(IF config # <<>> THEN Strip(config) ELSE <<>>),
                        resources |-> res]),
                c1 \o (IF running THEN <<Cmd("ip", vmid)>> ELSE <<>>)
                   \o <<Cmd("config", vmid)>>
                   \o (IF running THEN <<Cmd("mem", vmid), Cmd("disk", vmid)>> ELSE <<>>))

NotRunningMsg == <<"Container", SP, "not", SP, "running">>

\* DevContainerManager.monitor_resources(vmid)
monitor_resources(vmid, env) ==
    LET st == ParseStatus(run_command(env.status, TRUE).out)
        c1 == <<Cmd("status", vmid)>>
    IN  IF ~st.ok THEN Raised(IndexErrorMsg, c1)
        ELSE IF st.status # <<"running">>
        THEN Returned(PyDict([status |-> PyStr(st.status),
                              message |-> PyStr(NotRunningMsg)]), c1)
        ELSE Returned(
               PyDict([status |-> PyStr(st.status),
                       cpu_usage |-> PyStr(StripOrNA(run_command(env.top, TRUE).out)),
                       memory_info |-> PyStr(StripOrNA(run_command(env.free, TRUE).out)),
                       disk_info |-> PyStr(StripOrNA(run_command(env.df, TRUE).out))]),
               c1 \o <<Cmd("top", vmid), Cmd("free", vmid), Cmd("df", vmid)>>)

\* DevContainerManager.backup_container(vmid)
backup_container(vmid, env) ==
    LET r == run_command(env.backup, FALSE)
    IN  Returned(
          PyDict([success |-> PyBool(r.rc = 0),
                  backup_name |-> PyStr(<<"lxc-">> \o vmid \o <<"-", "timestamp">>),
                  error |-> IF r.rc # 0 THEN PyStr(r.err) ELSE PyNone,
                  location |-> PyStr(<<"/var/lib/vz/dump/">>)]),
          <<Cmd("vzdump", vmid)>>)

\* range(1001, 9999): the first candidate, and the end the range excludes
RangeFirst == 1001
RangeStop == 9999

\* i in range(1001, 9999)
InRange(i) == RangeFirst <= i /\ i < RangeStop

\* the number a decimal word of the vocabulary writes
WordVal(w) == CHOOSE n \in VmidPool : ToString(n) = w

\* the decimal writing of n starts with the decimal writing of i
RECURSIVE HasPrefix(_, _)
HasPrefix(n, i) == n = i \/ (n > i /\ HasPrefix(n \div 10, i))

\* grep -q '^{i}' over a text: some line starts with the digits of i
GrepPrefix(text, i) ==
    LET lines == SplitNL(text)
    IN  \E k \in 1..Len(lines) :
            /\ ReMatchDigits(lines[k])
            /\ HasPrefix(WordVal(lines[k][1]), i)

\* the process that `pct list | grep -q '^{i}'` is: the pipeline exits with
\* grep's status
CheckProcess(env, i) ==
    Process(env.check.launch, env.check.dur,
            IF env.list.launch /\ GrepPrefix(env.list.out, i) THEN 0 ELSE 1,
            <<>>, <<>>)

\* the `for i in range(1001, 9999)` loop from i on: the id it breaks at
\* (0 when the range is exhausted)
RECURSIVE FirstFree(_, _)
FirstFree(i, env) ==
    IF ~InRange(i) THEN 0
    ELSE IF run_command(CheckProcess(env, i), TRUE).rc # 0 THEN i
    ELSE FirstFree(i + 1, env)

NoVmidMsg == <<"No", SP, "available", SP, "VMID", SP, "found">>

\* create_container without the check of the clone's return code
create_container_unchecked_clone(project_name, vmid, template_type, env) ==
    LET found  == IF vmid = <<>> THEN FirstFree(RangeFirst, env) ELSE 0
        nchk   == IF vmid # <<>> THEN 0
                  ELSE IF found = 0 THEN RangeStop - RangeFirst
                  ELSE found - RangeFirst + 1
        checks == [j \in 1..nchk |-> Cmd("check", <<ToString(RangeFirst + j - 1)>>)]
        id     == IF vmid # <<>> THEN vmid
                  ELSE IF found = 0 THEN <<>> ELSE <<ToString(found)>>
        clone  == run_command(env.clone, TRUE)
        start  == run_command(env.start, TRUE)
        ipout  == Strip(run_command(env.ip, TRUE).out)
        ip     == IF ipout # <<>> THEN ipout ELSE <<"pending">>
    IN  IF id = <<>>
        THEN Returned(PyDict([success |-> PyBool(FALSE), error |-> PyStr(NoVmidMsg)]),
                      checks)
        ELSE IF start.rc # 0
        THEN Returned(PyDict([success |-> PyBool(FALSE), error |-> PyStr(start.err)]),
                      checks \o <<Cmd("clone", id), Cmd("start", id)>>)
        ELSE Returned(
               PyDict([success |-> PyBool(TRUE), vmid |-> PyStr(id),
                       project_name |-> PyStr(project_name), ip |-> PyStr(ip),
                       access_methods |-> PyList(<<
                           PyStr(<<"pct", SP, "enter", SP>> \o id),
                           PyStr(<<"ssh", SP, "developer@">> \o
                                 (IF ip # <<"pending">> THEN ip ELSE <<"<ip>">>))>>)]),
               checks \o <<Cmd("clone", id), Cmd("start", id), Cmd("ip", id)>>)

\* DevContainerManager.create_container(project_name, vmid, template_type);
\* vmid = <<>> stands for None and for "", which `not vmid` treats alike
create_container(project_name, vmid, template_type, env) ==
    LET found  == IF vmid = <<>> THEN FirstFree(RangeFirst, env) ELSE 0
        nchk   == IF vmid # <<>> THEN 0
                  ELSE IF found = 0 THEN RangeStop - RangeFirst
                  ELSE found - RangeFirst + 1
        checks == [j \in 1..nchk |-> Cmd("check", <<ToString(RangeFirst + j - 1)>>)]
        id     == IF vmid # <<>> THEN vmid
                  ELSE IF found = 0 THEN <<>> ELSE <<ToString(found)>>
        clone  == run_command(env.clone, TRUE)
        start  == run_command(env.start, TRUE)
        ipout  == Strip(run_command(env.ip, TRUE).out)
        ip     == IF ipout # <<>> THEN ipout ELSE <<"pending">>
    IN  IF id = <<>>
        THEN Returned(PyDict([success |-> PyBool(FALSE), error |-> PyStr(NoVmidMsg)]),
                      checks)
        ELSE IF clone.rc # 0
        THEN Returned(PyDict([success |-> PyBool(FALSE), error |-> PyStr(clone.err)]),
                      checks \o <<Cmd("clone", id)>>)
        ELSE IF start.rc # 0
        THEN Returned(PyDict([success |-> PyBool(FALSE), error |-> PyStr(start.err)]),
                      checks \o <<Cmd("clone", id), Cmd("start", id)>>)
        ELSE Returned(
               PyDict([success |-> PyBool(TRUE), vmid |-> PyStr(id),
                       project_name |-> PyStr(project_name), ip |-> PyStr(ip),
                       access_methods |-> PyList(<<
                           PyStr(<<"pct", SP, "enter", SP>> \o id),
                           PyStr(<<"ssh", SP, "developer@">> \o
                                 (IF ip # <<"pending">> THEN ip ELSE <<"<ip>">>))>>)]),
               checks \o <<Cmd("clone", id), Cmd("start", id), Cmd("ip", id)>>)

\* the process that `opencode auth login --provider {provider}` is
AuthProcess(env, provider) ==
    IF provider \in env.authbad
    THEN Process(env.auth.launch, env.auth.dur, 1, <<>>, <<"failed">>)
    ELSE env.auth

\* the `for provider in providers` loop of configure_opencode: the first
\* provider whose login fails, if any, and the logins attempted
RECURSIVE AuthLoop(_, _, _)
AuthLoop(providers, vmid, env) ==
    IF providers = <<>> THEN [failed |-> FALSE, provider |-> <<>>, err |-> <<>>,
                              cmds |-> <<>>]
    ELSE LET r == run_command(AuthProcess(env, Head(providers)), TRUE)
             c == Cmd("auth", Head(providers))
         IN  IF r.rc # 0
             THEN [failed |-> TRUE, provider |-> Head(providers), err |-> r.err,
                   cmds |-> <<c>>]
             ELSE LET rest == AuthLoop(Tail(providers), vmid, env)
                  IN  [rest EXCEPT !.cmds = <<c>> \o @]

\* DevContainerManager.configure_opencode(vmid, providers); providers = <<>>
\* stands for None and for [], which `if providers` treats alike
configure_opencode(vmid, providers, env) ==
    LET auth == AuthLoop(providers, vmid, env)
        r    == run_command(env.version, TRUE)
    IN  IF auth.failed
        THEN Returned(
               PyDict([success |-> PyBool(FALSE),
                       error |-> PyStr(<<"Failed", SP, "to", SP, "configure", SP>>
                                       \o auth.provider \o <<":", SP>> \o auth.err)]),
               auth.cmds)
        ELSE Returned(
               PyDict([success |-> PyBool(r.rc = 0), version |-> PyStr(Strip(r.out)),
                       error |-> IF r.rc # 0 THEN PyStr(r.err) ELSE PyNone]),
               auth.cmds \o <<Cmd("version", vmid)>>)

StrList(ws) == PyList([i \in 1..Len(ws) |-> PyStr(<<ws[i]>>)])
IntList(ns) == PyList([i \in 1..Len(ns) |-> PyInt(ns[i])])

\* template_configs.get(template_type, {})
template_configs(template_type) ==
    IF template_type = <<"web">> THEN
        PyDict([packages |-> StrList(<<"chromium", "lighttpd">>),
                npm_packages |-> StrList(<<"postman-cli">>),
                ports |-> IntList(<<3000, 5173, 4173>>)])
    ELSE IF template_type = <<"api">> THEN
        PyDict([packages |-> StrList(<<"postgresql-client", "redis-tools">>),
                npm_packages |-> StrList(<<"nodemon", "typescript">>),
                services |-> StrList(<<"postgres", "redis">>),
                ports |-> IntList(<<3000, 8080, 9229>>)])
    ELSE IF template_type = <<"ml">> THEN
        PyDict([packages |-> StrList(<<"python3-torch", "python3-jupyter">>),
                python_packages |-> StrList(<<"scikit-learn", "pandas", "matplotlib">>),
                ports |-> IntList(<<8888>>),
                setup_script |-> PyStr(<<"jupyter_setup.sh">>)])
    ELSE IF template_type = <<"devops">> THEN
        PyDict([packages |-> StrList(<<"terraform", "ansible", "kubectl">>),
                services |-> StrList(<<"docker-registry">>),
                ports |-> IntList(<<6443, 8080>>)])
    ELSE PyDict(<<>>)

\* key in dict
HasKey(d, k) == k \in DOMAIN d.v

InstallFailed(what, err, cmds) ==
    Returned(PyDict([success |-> PyBool(FALSE),
                     error |-> PyStr(<<what, SP, "install", SP, "failed:", SP>> \o err)]),
             cmds)

\* DevContainerManager.setup_project_template(vmid, template_type)
setup_project_template(vmid, template_type, env) ==
    LET config == template_configs(template_type)
        apt    == run_command(env.apt, TRUE)
        npm    == run_command(env.npm, TRUE)
        pip    == run_command(env.pip, TRUE)
        c1     == IF HasKey(config, "packages") THEN <<Cmd("apt", vmid)>> ELSE <<>>
        \* every npm install has the same fate: the loop stops at the first
        \* package when it fails and runs once per package when it succeeds
        nnpm   == IF ~HasKey(config, "npm_packages") THEN 0
                  ELSE IF npm.rc # 0 THEN 1 ELSE Len(config.v["npm_packages"].v)
        c2     == [j \in 1..nnpm |-> Cmd("npm", vmid)]
        c3     == IF HasKey(config, "python_packages") THEN <<Cmd("pip", vmid)>> ELSE <<>>
    IN  IF HasKey(config, "packages") /\ apt.rc # 0
        THEN InstallFailed("Package", apt.err, c1)
        ELSE IF HasKey(config, "npm_packages") /\ npm.rc # 0
        THEN InstallFailed("NPM", npm.err, c1 \o c2)
        ELSE IF HasKey(config, "python_packages") /\ pip.rc # 0
        THEN InstallFailed("Pip", pip.err, c1 \o c2 \o c3)
        ELSE Returned(PyDict([success |-> PyBool(TRUE), template |-> PyStr(template_type),
                              installed |-> config]),
                      c1 \o c2 \o c3)

-----------------------------------------------------------------------------
(* JSON *)

\* json.dumps(value): the document that is written
RECURSIVE ToJson(_)
ToJson(x) ==
    CASE x.py = "str"  -> [js |-> "string", v |-> x.v]
      [] x.py = "None" -> [js |-> "null"]
      [] x.py = "bool" -> [js |-> IF x.v THEN "true" ELSE "false"]
      [] x.py = "int"  -> [js |-> "number", v |-> x.v]
      [] x.py = "list" -> [js |-> "array", v |-> [i \in 1..Len(x.v) |-> ToJson(x.v[i])]]
      [] x.py = "dict" -> [js |-> "object", v |-> [k \in DOMAIN x.v |-> ToJson(x.v[k])]]

\* the Python value json.loads builds from a document
RECURSIVE FromJson(_)
FromJson(j) ==
    CASE j.js = "string" -> PyStr(j.v)
      [] j.js = "null"   -> PyNone
      [] j.js = "true"   -> PyBool(TRUE)
      [] j.js = "false"  -> PyBool(FALSE)
      [] j.js = "number" -> PyInt(j.v)
      [] j.js = "array"  -> PyList([i \in 1..Len(j.v) |-> FromJson(j.v[i])])
      [] j.js = "object" -> PyDict([k \in DOMAIN j.v |-> FromJson(j.v[k])])

\* output that is no JSON document
Garbage == [js |-> "invalid"]

JsonErrMsg == <<"JSONDecodeError">>

\* json.loads(text) of a stream of written chunks: exactly one document parses,
\* nothing ("Expecting value"), a non-document, or a second document
\* ("Extra data") raises json.JSONDecodeError
json_loads(chunks) ==
    IF Len(chunks) = 1 /\ chunks[1].js # "invalid"
    THEN Returned(FromJson(chunks[1]), <<>>)
    ELSE Raised(JsonErrMsg, <<>>)

-----------------------------------------------------------------------------
(* main(): the command-line entry point.  argv[1] is the script's name,    *)
(* argv[2] the action (sys.argv[0] and sys.argv[1]).                        *)

Words(ws) == [i \in 1..(2 * Len(ws) - 1) |-> IF i % 2 = 1 THEN ws[(i + 1) \div 2] ELSE SP]

MainUsageMsg == Words(<<"Usage:", "python3", "devcontainer-manager.py", "<action>",
                        "[options]">>)

UsageMsg(action) ==
    CASE action = <<"create">> ->
            Words(<<"Usage:", "create", "<project_name>", "[vmid]", "[template_type]">>)
      [] action = <<"info">> -> Words(<<"Usage:", "info", "<vmid>">>)
      [] action = <<"configure-opencode">> ->
            Words(<<"Usage:", "configure-opencode", "<vmid>", "[provider1,provider2,...]">>)
      [] action = <<"setup-template">> ->
            Words(<<"Usage:", "setup-template", "<vmid>", "<template_type>">>)
      [] action = <<"monitor">> -> Words(<<"Usage:", "monitor", "<vmid>">>)
      [] action = <<"backup">> -> Words(<<"Usage:", "backup", "<vmid>">>)

UsageError(action) == Returned(PyDict([error |-> PyStr(UsageMsg(action))]), <<>>)

available_actions ==
    <<"list", "create", "info", "configure-opencode", "setup-template", "monitor", "backup">>

\* the chain of main with an eighth branch, for the `start` the dashboard sends
Dispatch_with_start(argv, env) ==
    LET action == argv[2]
        n      == Len(argv)
    IN  CASE action = <<"list">> -> list_containers(env)
          [] action = <<"start">> /\ n > 2 ->
                Returned(PyDict([success |-> PyBool(run_command(env.start, TRUE).rc = 0)]),
                         <<Cmd("start", argv[3])>>)
          [] action = <<"create">> ->
                IF n < 3 THEN UsageError(action)
                ELSE create_container(argv[3], IF n > 3 THEN argv[4] ELSE <<>>,
                                      IF n > 4 THEN argv[5] ELSE <<"default">>, env)
          [] action = <<"info">> ->
                IF n < 3 THEN UsageError(action) ELSE get_container_info(argv[3], env)
          [] action = <<"configure-opencode">> ->
                IF n < 3 THEN UsageError(action)
                ELSE configure_opencode(argv[3],
                                        IF n > 3 THEN SplitOn(argv[4], ",") ELSE <<>>, env)
          [] action = <<"setup-template">> ->
                IF n < 4 THEN UsageError(action)
                ELSE setup_project_template(argv[3], argv[4], env)
          [] action = <<"monitor">> ->
                IF n < 3 THEN UsageError(action) ELSE monitor_resources(argv[3], env)
          [] action = <<"backup">> ->
                IF n < 3 THEN UsageError(action) ELSE backup_container(argv[3], env)
          [] OTHER ->
                Returned(PyDict([error |-> PyStr(<<"Unknown", SP, "action:", SP>> \o action),
                                 available_actions |-> StrList(available_actions)]), <<>>)

\* the if / elif chain of main: the result it assigns, or the exception the
\* action raises
Dispatch(argv, env) ==
    LET action == argv[2]
        n      == Len(argv)
    IN  CASE action = <<"list">> -> list_containers(env)
          [] action = <<"create">> ->
                IF n < 3 THEN UsageError(action)
                ELSE create_container(argv[3], IF n > 3 THEN argv[4] ELSE <<>>,
                                      IF n > 4 THEN argv[5] ELSE <<"default">>, env)
          [] action = <<"info">> ->
                IF n < 3 THEN UsageError(action) ELSE get_container_info(argv[3], env)
          [] action = <<"configure-opencode">> ->
                IF n < 3 THEN UsageError(action)
                ELSE configure_opencode(argv[3],
                                        IF n > 3 THEN SplitOn(argv[4], ",") ELSE <<>>, env)
          [] action = <<"setup-template">> ->
                IF n < 4 THEN UsageError(action)
                ELSE setup_project_template(argv[3], argv[4], env)
          [] action = <<"monitor">> ->
                IF n < 3 THEN UsageError(action) ELSE monitor_resources(argv[3], env)
          [] action = <<"backup">> ->
                IF n < 3 THEN UsageError(action) ELSE backup_container(argv[3], env)
          [] OTHER ->
                Returned(PyDict([error |-> PyStr(<<"Unknown", SP, "action:", SP>> \o action),
                                 available_actions |-> StrList(available_actions)]), <<>>)

\* what a run of the script leaves behind: the documents printed to stdout,
\* the exit status, whether an exception escaped main (a traceback on stderr),
\* and the runtime commands issued
Exit(stdout, status, escaped, cmds) ==
    [stdout |-> stdout, exit |-> status, escaped |-> escaped, cmds |-> cmds]

\* sys.exit(1) after the usage message is printed
UsageExit == Exit(<<ToJson(PyDict([error |-> PyStr(MainUsageMsg)]))>>, 1, FALSE, <<>>)

\* the end of main() had it no try / except: the exception r of the action
\* escapes, nothing is printed and the interpreter exits with 1
EscapeOrPrint(r) ==
    IF r.raised THEN Exit(<<>>, 1, TRUE, r.cmds)
    ELSE Exit(<<ToJson(r.value)>>, 0, FALSE, r.cmds)

\* the end of main(): `except Exception as e: result = {'error': str(e)}`,
\* then print(json.dumps(result, ...)); r is what the action returned or raised
CatchAndPrint(r) ==
    Exit(<<ToJson(IF r.raised THEN PyDict([error |-> PyStr(r.exc)]) ELSE r.value)>>,
         0, FALSE, r.cmds)

\* main() without its try / except
main_no_except(argv, env) ==
    IF Len(argv) < 2 THEN UsageExit ELSE EscapeOrPrint(Dispatch(argv, env))

\* main()
main(argv, env) ==
    IF Len(argv) < 2 THEN UsageExit ELSE CatchAndPrint(Dispatch(argv, env))

-----------------------------------------------------------------------------
(* src/web/app.py: run_agent_command and the handlers built on it *)

\* timeout=30 of subprocess.run in run_agent_command
AgentTimeout == 30

AgentTimedOutMsg == <<"timed", SP, "out", SP, "after", SP, "30", SP, "seconds">>
Traceback == <<"Traceback">>
AttributeErrorMsg == <<"object", SP, "has", SP, "no", SP, "attribute", SP, "'get'">>

\* the process that a run m of the script is, seen from its parent
Exited(m) == Process(TRUE, 1, m.exit, m.stdout, IF m.escaped THEN Traceback ELSE <<>>)

\* The child process that running the script with cmd_args turns out to be.
\* world.fate: "run" (the script runs to its end against world.env), "slow"
\* (it is still running when the timeout elapses), "missing" (it cannot be
\* launched), "killed" (it dies with a non-zero status), "garbled" and
\* "silent" (it exits with 0 having written no JSON document, or nothing)
ScriptProcess(cmd_args, world) ==
    CASE world.fate = "run" ->
            Exited(main(<<<<"devcontainer-manager.py">>>> \o cmd_args, world.env))
      [] world.fate = "slow"    -> Process(TRUE, AgentTimeout + 1, 0, <<>>, <<>>)
      [] world.fate = "missing" -> Process(FALSE, 0, 0, <<>>, <<>>)
      [] world.fate = "killed"  -> Process(TRUE, 1, -9, <<>>, <<"Killed">>)
      [] world.fate = "garbled" -> Process(TRUE, 1, 0, <<Garbage>>, <<>>)
      [] world.fate = "silent"  -> Process(TRUE, 1, 0, <<>>, <<>>)

AgentFailure(msg) == PyDict([success |-> PyBool(FALSE), error |-> PyStr(msg)])

\* the try block of run_agent_command, given the child process: it returns a
\* value or raises
AgentTry(child) ==
    IF ~child.launch THEN Raised(LaunchErrMsg, <<>>)
    ELSE IF child.dur > AgentTimeout THEN Raised(AgentTimedOutMsg, <<>>)
    ELSE IF child.rc = 0 THEN json_loads(child.out)
    ELSE Returned(AgentFailure(child.err), <<>>)

\* `except Exception as e: return {'success': False, 'error': str(e)}`
AgentExcept(r) == IF r.raised THEN Returned(AgentFailure(r.exc), <<>>) ELSE r

\* run_agent_command without its except clause
run_agent_command_no_except(cmd_args, world) == AgentTry(ScriptProcess(cmd_args, world))

\* run_agent_command(cmd_args)
run_agent_command(cmd_args, world) ==
    AgentExcept(AgentTry(ScriptProcess(cmd_args, world)))

\* bool(value)
Truthy(x) ==
    CASE x.py = "None" -> FALSE
      [] x.py = "bool" -> x.v
      [] x.py = "int"  -> x.v # 0
      [] x.py = "str"  -> x.v # <<>>
      [] x.py = "list" -> x.v # <<>>
      [] x.py = "dict" -> DOMAIN x.v # {}

\* value.get(key): only a dict has the method
PyGet(x, key) ==
    IF x.py # "dict" THEN Raised(AttributeErrorMsg, <<>>)
    ELSE IF key \in DOMAIN x.v THEN Returned(x.v[key], <<>>)
    ELSE Returned(PyNone, <<>>)

\* an event emitted to a client
Event(name, data) == [name |-> name, data |-> data]

\* what a handler did: the events it emitted to the requesting client, what
\* it printed, and the value it returned as the HTTP response
Handled(emits, printed, resp) == [emits |-> emits, printed |-> printed, resp |-> resp]

\* containers.get('containers') on what run_agent_command returned
LookupContainers(r) == IF r.raised THEN r ELSE PyGet(r.value, "containers")

\* the try block shared by the three socket handlers: run the list command
\* and look up 'containers' in its result
ListLookup(world) == LookupContainers(run_agent_command(<<<<"list">>>>, world))

\* the rest of handle_connect, given the lookup's outcome
ConnectEmits(got) ==
    IF got.raised
    THEN Handled(<<>>, <<"Error", SP, "sending", SP, "initial", SP, "data:", SP>>
                        \o got.exc, PyNone)
    ELSE IF Truthy(got.value)
    THEN Handled(<<Event("containers_update", got.value)>>, <<>>, PyNone)
    ELSE Handled(<<>>, <<>>, PyNone)

\* handle_connect()
handle_connect(world) == ConnectEmits(ListLookup(world))

\* the rest of handle_request_containers, given the lookup's outcome
RequestEmits(got) ==
    IF got.raised
    THEN Handled(<<Event("error", PyDict([message |-> PyStr(got.exc)]))>>, <<>>, PyNone)
    ELSE IF Truthy(got.value)
    THEN Handled(<<Event("containers_update", got.value)>>, <<>>, PyNone)
    ELSE Handled(<<>>, <<>>, PyNone)

\* handle_request_containers()
handle_request_containers(world) == RequestEmits(ListLookup(world))

\* the rest of handle_refresh_containers, given the lookup's outcome
RefreshEmits(got) ==
    IF got.raised
    THEN Handled(<<Event("error", PyDict([message |-> PyStr(got.exc),
                                          type |-> PyStr(<<"error">>)]))>>,
                 <<>>, PyNone)
    ELSE IF Truthy(got.value)
    THEN Handled(<<Event("containers_update", got.value),
                   Event("notification",
                         PyDict([message |-> PyStr(<<"Container", SP, "list", SP,
                                                     "refreshed">>),
                                 type |-> PyStr(<<"success">>)]))>>,
                 <<>>, PyNone)
    ELSE Handled(<<>>, <<>>, PyNone)

\* handle_refresh_containers()
handle_refresh_containers(world) == RefreshEmits(ListLookup(world))

\* return jsonify(...) inside try / except of an endpoint
ApiResponse(r) ==
    IF r.raised THEN Handled(<<>>, <<>>, AgentFailure(r.exc))
    ELSE Handled(<<>>, <<>>, r.value)

\* the HTTP endpoints get_containers, get_container_info, start_container,
\* stop_container, restart_container and monitor_container: the response is
\* jsonify(run_agent_command([...]))
api_endpoint(cmd_args, world) == ApiResponse(run_agent_command(cmd_args, world))

\* data.get('providers', ['anthropic']) as a list of str; got is what
\* data.get returned or raised
ProvidersOf(body, got) ==
    IF got.raised THEN <<>>
    ELSE IF "providers" \in DOMAIN body.v
    THEN [i \in 1..Len(got.value.v) |-> got.value.v[i].v]
    ELSE <<(<<"anthropic">>)>>

\* ['configure-opencode', vmid] + providers: every provider is an argument
\* of its own
ConfigureArgs(vmid, providers) == <<<<"configure-opencode">>, vmid>> \o providers

\* the HTTP endpoint configure_opencode(vmid): body is the request's JSON
\* body, PyNone when there is none
api_configure_opencode(vmid, body, world) ==
    IF PyGet(body, "providers").raised
    THEN Handled(<<>>, <<>>, AgentFailure(PyGet(body, "providers").exc))
    ELSE api_endpoint(ConfigureArgs(vmid, ProvidersOf(body, PyGet(body, "providers"))),
                      world)

-----------------------------------------------------------------------------
(* The inputs explored: what the external commands turn out to be *)

Ok(out)      == Process(TRUE, 1, 0, out, <<>>)
Failing      == Process(TRUE, 1, 1, <<>>, FailMsg)
FailWith(out) == Process(TRUE, 1, 2, out, FailMsg)
Slow(out)    == Process(TRUE, Timeout + 1, 0, out, <<>>)
Missing      == Process(FALSE, 0, 0, <<>>, <<>>)

\* every command succeeds and prints nothing
BaseEnv ==
    [list |-> Ok(<<>>), ip |-> Ok(<<>>), status |-> Ok(<<>>), config |-> Ok(<<>>),
     mem |-> Ok(<<>>), disk |-> Ok(<<>>), top |-> Ok(<<>>), free |-> Ok(<<>>),
     df |-> Ok(<<>>), backup |-> Ok(<<>>), check |-> Ok(<<>>), clone |-> Ok(<<>>),
     start |-> Ok(<<>>), auth |-> Ok(<<>>), version |-> Ok(<<>>), apt |-> Ok(<<>>),
     npm |-> Ok(<<>>), pip |-> Ok(<<>>), authbad |-> {}]

HeaderLine == Words(<<"VMID", "Status", "Lock", "Name">>)

\* a row of `pct list`
Row(vmid, status, name) == Words(<<ToString(vmid), status, name>>)

\* the lines a `pct list` output is made of: well-formed rows, the template's
\* row, a row cut short, a row with its lock column set, an indented row and
\* a blank line
LineShapes ==
    {Row(101, "running", "web"), Row(102, "stopped", "api"),
     Row(9000, "stopped", "template"),
     Words(<<"101", "running">>),
     Words(<<"102", "stopped", "backup", "api">>),
     <<SP>> \o Row(101, "running", "web"),
     <<>>}

LineSeqs == UNION {[1..n -> LineShapes] : n \in 0..MaxListLines}

ListTexts ==
    {(IF h THEN HeaderLine \o <<NL>> ELSE <<>>) \o JoinNL(ls)
        \o (IF nl THEN <<NL>> ELSE <<>>) :
        h \in BOOLEAN, nl \in BOOLEAN, ls \in LineSeqs}

ListProcs == {Ok(t) : t \in ListTexts} \cup {Failing, Slow(<<>>), Missing}

IpText == <<"10.0.0.5", NL>>
IpProcs == {Ok(IpText), Ok(<<>>), Failing, Slow(IpText)}

StatusAlphabet == {SP, NL, "status:", "running"}

\* every text of at most MaxStatusLen elements (two words never touch: a word
\* is a maximal run), and the two outputs `pct status` prints
StatusTexts ==
    {t \in UNION {[1..n -> StatusAlphabet] : n \in 0..MaxStatusLen} :
        \A i \in 1..(Len(t) - 1) : IsWs(t[i]) \/ IsWs(t[i + 1])}
    \cup {<<"status:", SP, "running", NL>>, <<"status:", SP, "stopped", NL>>}

StatusProcs ==
    {Ok(t) : t \in StatusTexts}
    \cup {Failing, FailWith(<<NL>>), Slow(<<"status:", SP, "running", NL>>), Missing}

ConfigText == <<"arch:", SP, "amd64", NL, "cores:", SP, "8", NL>>
TextProcs(t) == {Ok(t), Failing}

Vmid == <<"101">>

ListEnvs == {[BaseEnv EXCEPT !.list = l, !.ip = i] : l \in ListProcs, i \in IpProcs}

InfoEnvs ==
    {[BaseEnv EXCEPT !.status = st, !.ip = i, !.config = c, !.mem = m, !.disk = d] :
        st \in StatusProcs, i \in IpProcs, c \in TextProcs(ConfigText),
        m \in TextProcs(<<"1G/8G", NL>>), d \in TextProcs(<<"2G/20G", NL>>)}

MonitorEnvs ==
    {[BaseEnv EXCEPT !.status = st, !.top = t, !.free = f, !.df = d] :
        st \in StatusProcs, t \in TextProcs(<<"top", NL>>),
        f \in TextProcs(<<"Mem:", NL>>), d \in TextProcs(<<"/dev/sda", NL>>)}

BackupEnvs ==
    {[BaseEnv EXCEPT !.backup = b] :
        b \in {Ok(<<"done">>), Failing, Slow(<<"done">>), Missing}}

CreateListings ==
    {<<>>, Row(1001, "running", "web") \o <<NL>>,
     HeaderLine \o <<NL>> \o Row(1001, "running", "web") \o <<NL>>
        \o Row(1002, "stopped", "api") \o <<NL>>,
     Row(10010, "running", "web") \o <<NL>>,
     Row(1002, "stopped", "api") \o <<NL>>}

CreateEnvs ==
    {[BaseEnv EXCEPT !.list = Ok(l), !.check = k, !.clone = c, !.start = st, !.ip = i] :
        l \in CreateListings, k \in {Ok(<<>>), Slow(<<>>), Missing},
        c \in {Ok(<<>>), Failing}, st \in {Ok(<<>>), Failing},
        i \in {Ok(IpText), Ok(<<>>)}}

Providers == {<<"anthropic">>, <<"openai">>}

ConfigureEnvs ==
    {[BaseEnv EXCEPT !.auth = a, !.authbad = bad, !.version = v] :
        a \in {Ok(<<>>), Slow(<<>>)}, bad \in SUBSET Providers,
        v \in TextProcs(<<"1.1.15", NL>>)}

TemplateEnvs ==
    {[BaseEnv EXCEPT !.apt = a, !.npm = n, !.pip = pp] :
        a \in {Ok(<<>>), Failing}, n \in {Ok(<<>>), Failing}, pp \in {Ok(<<>>), Failing}}

Script == <<"devcontainer-manager.py">>

\* the invocations of the script explored, each with the runtime it meets
CliRuns ==
    {<<(<<Script>>), BaseEnv>>}
    \cup {<<(<<Script, <<"list">>>>), e>> : e \in ListEnvs}
    \cup {<<(<<Script, a>>), BaseEnv>> :
            a \in {<<"create">>, <<"info">>, <<"configure-opencode">>,
                   <<"setup-template">>, <<"monitor">>, <<"backup">>,
                   <<"start">>, <<"stop">>, <<"restart">>}}
    \cup {<<(<<Script, a, Vmid>>), BaseEnv>> :
            a \in {<<"setup-template">>, <<"start">>, <<"stop">>, <<"restart">>}}
    \cup {<<(<<Script, <<"create">>, <<"proj">>>> \o v), e>> :
            v \in {<<>>, <<(<<"1001">>)>>, <<(<<"1001">>), <<"web">>>>}, e \in CreateEnvs}
    \cup {<<(<<Script, <<"info">>, Vmid>>), e>> : e \in InfoEnvs}
    \cup {<<(<<Script, <<"configure-opencode">>, Vmid>> \o pr), e>> :
            pr \in {<<>>, <<(<<"anthropic">>)>>, <<(<<"anthropic", ",", "openai">>)>>,
                    <<(<<"anthropic">>), <<"openai">>>>},
            e \in ConfigureEnvs}
    \cup {<<(<<Script, <<"setup-template">>, Vmid, t>>), e>> :
            t \in {<<"web">>, <<"api">>, <<"ml">>, <<"devops">>, <<"other">>},
            e \in TemplateEnvs}
    \cup {<<(<<Script, <<"monitor">>, Vmid>>), e>> : e \in MonitorEnvs}
    \cup {<<(<<Script, <<"backup">>, Vmid>>), e>> : e \in BackupEnvs}

-----------------------------------------------------------------------------
(* The runtime behind the web server: its containers, in listing order *)

Container(vmid, status, name) == [vmid |-> vmid, status |-> status, name |-> name]

\* the listings the runtime passes through
RuntimeListings ==
    {<<>>,
     <<Container(101, "running", "web")>>,
     <<Container(9000, "stopped", "template"), Container(101, "stopped", "web")>>,
     <<Container(101, "running", "web"), Container(102, "stopped", "api")>>}

\* what `pct list` prints for a listing: the header, then a row per container
Render(rt) ==
    JoinNL(<<HeaderLine>> \o [i \in 1..Len(rt) |->
                                Row(rt[i].vmid, rt[i].status, rt[i].name)]) \o <<NL>>

\* what the commands turn out to be for a listing, as seen for container vmid;
\* pctok = FALSE: the runtime's tool fails (every pct command exits non-zero)
RuntimeEnv(rt, vmid, pctok) ==
    LET known == {k \in 1..Len(rt) : <<ToString(rt[k].vmid)>> = vmid}
        st    == IF known = {} THEN "" ELSE rt[CHOOSE k \in known : TRUE].status
    IN  IF ~pctok
        THEN [BaseEnv EXCEPT !.list = Failing, !.status = Failing, !.ip = Failing,
                             !.config = Failing, !.backup = Failing, !.auth = Failing,
                             !.version = Failing]
        ELSE [BaseEnv EXCEPT
                !.list = Ok(Render(rt)),
                !.status = IF known = {} THEN Failing
                           ELSE Ok(<<"status:", SP, st, NL>>),
                !.ip = Ok(IpText),
                !.config = IF known = {} THEN Failing ELSE Ok(ConfigText),
                !.version = IF known # {} /\ st = "running" THEN Ok(<<"1.1.15", NL>>)
                            ELSE Failing,
                !.auth = IF known # {} /\ st = "running" THEN Ok(<<>>) ELSE Failing]

World(fate, env) == [fate |-> fate, env |-> env]

\* the ways a run of the script by the web server can go, for a listing
WebWorlds(rt, vmid) ==
    {World("run", RuntimeEnv(rt, vmid, ok)) : ok \in BOOLEAN}
    \cup {World(f, RuntimeEnv(rt, vmid, TRUE)) : f \in {"slow", "missing", "killed"}}

\* every outcome of the child process, the ones the installed script cannot
\* produce included
AllWorlds(rt, vmid) ==
    WebWorlds(rt, vmid)
    \cup {World(f, RuntimeEnv(rt, vmid, TRUE)) : f \in {"garbled", "silent"}}

ApiVmids == {<<"101">>, <<"999">>}

\* the command lines the HTTP endpoints pass to run_agent_command
ApiArgs ==
    {<<(<<"list">>)>>}
    \cup {<<a, v>> : a \in {<<"info">>, <<"start">>, <<"stop">>, <<"restart">>,
                            <<"monitor">>},
                     v \in ApiVmids}

\* the JSON bodies posted to the configure-opencode endpoint
ApiBodies ==
    {PyNone, PyDict(<<>>),
     PyDict([providers |-> PyList(<<PyStr(<<"openai">>)>>)]),
     PyDict([providers |-> PyList(<<PyStr(<<"anthropic">>), PyStr(<<"openai">>)>>)]),
     PyDict([providers |-> PyList(<<PyStr(<<"openai">>), PyStr(<<"anthropic">>)>>)])}

-----------------------------------------------------------------------------
(* State *)

IdleCli == [pc |-> "start", argv |-> <<>>, env |-> BaseEnv,
            res |-> Exit(<<>>, 0, FALSE, <<>>)]

IdleCall == [pc |-> "fresh", method |-> "", vmid |-> <<>>, env |-> BaseEnv,
             ret |-> Returned(PyNone, <<>>)]

Sids == {"s1", "s2"}

NoHandler ==
    [op |-> "none", sid |-> "", args |-> <<>>, world |-> [fate |-> "run", env |-> BaseEnv],
     did |-> [emits |-> <<>>, printed |-> <<>>, resp |-> PyNone]]

\* the request threads of the web server
Tids == {"t1", "t2"}

NoCmd == Cmd("", <<>>)

\* a request thread with nothing to do
IdleRequest == [pc |-> "idle", args |-> <<>>, todo |-> <<>>, cur |-> NoCmd]

\* the server before socketio picked its async mode
IdleServer == [mode |-> "unset", req |-> [t \in Tids |-> IdleRequest]]

\* the processes calling create_container side by side
Creators == {"p1", "p2"}

\* a create_container call not yet made
IdleCreator == [pc |-> "idle", i |-> 0, vmid |-> <<>>, cloned |-> FALSE, ok |-> FALSE]

Init ==
    /\ runcmd = IdleRunCmd
    /\ cli = IdleCli
    /\ call = IdleCall
    /\ runtime = <<>>
    /\ clients = {}
    /\ outbox = [c \in Sids |-> <<>>]
    /\ last = NoHandler
    /\ budget = MaxHandlerRuns
    /\ server = IdleServer
    /\ creators = [p \in Creators |-> IdleCreator]

-----------------------------------------------------------------------------
(* One run_command call, in time *)

RcStartAny == \E p \in CmdProcesses, capture_output \in BOOLEAN : RcStart(p, capture_output)

NextCmd == RcStartAny \/ RcTick \/ RcExit \/ RcExpire

SpecCmd == Init /\ [][NextCmd]_vars

-----------------------------------------------------------------------------
(* The script run once from the command line, or the class imported and one *)
(* of its methods called                                                    *)

RunMain ==
    /\ cli.pc = "start" /\ call.pc = "fresh"
    /\ \E run \in CliRuns :
          cli' = [pc |-> "exited", argv |-> run[1], env |-> run[2],
                  res |-> main(run[1], run[2])]
    /\ UNCHANGED <<runcmd, call, runtime, clients, outbox, last, budget, server, creators>>

Called(method, vmid, env, ret) ==
    /\ call' = [pc |-> "returned", method |-> method, vmid |-> vmid, env |-> env,
                ret |-> ret]
    /\ UNCHANGED <<runcmd, cli, runtime, clients, outbox, last, budget, server, creators>>

CallListContainers ==
    /\ cli.pc = "start" /\ call.pc = "fresh"
    /\ \E e \in ListEnvs : Called("list_containers", <<>>, e, list_containers(e))

CallGetContainerInfo ==
    /\ cli.pc = "start" /\ call.pc = "fresh"
    /\ \E e \in InfoEnvs :
          Called("get_container_info", Vmid, e, get_container_info(Vmid, e))

CallMonitorResources ==
    /\ cli.pc = "start" /\ call.pc = "fresh"
    /\ \E e \in MonitorEnvs :
          Called("monitor_resources", Vmid, e, monitor_resources(Vmid, e))

CallBackupContainer ==
    /\ cli.pc = "start" /\ call.pc = "fresh"
    /\ \E e \in BackupEnvs :
          Called("backup_container", Vmid, e, backup_container(Vmid, e))

\* the ids around both ends of the range
CandidateProbes ==
    {RangeFirst - 1, RangeFirst, RangeFirst + 1, RangeStop - 1, RangeStop, RangeStop + 1}

\* is an id one the VMID loop of create_container tries
CallInRange ==
    /\ cli.pc = "start" /\ call.pc = "fresh"
    /\ \E i \in CandidateProbes :
          Called("in_range", <<ToString(i)>>, BaseEnv, Returned(PyBool(InRange(i)), <<>>))

NextCli ==
    \/ RunMain
    \/ CallInRange
    \/ CallListContainers
    \/ CallGetContainerInfo
    \/ CallMonitorResources
    \/ CallBackupContainer

SpecCli == Init /\ [][NextCli]_vars

-----------------------------------------------------------------------------
(* The web server: clients connect, ask for the list, and the runtime changes *)

NoWorld == World("run", BaseEnv)

Ran(op, sid, args, world, h) ==
    [op |-> op, sid |-> sid, args |-> args, world |-> world, did |-> h]

\* a Socket.IO handler ran for client c: what it emitted went to c alone
SocketHandled(op, c, world, h) ==
    /\ last' = Ran(op, c, <<>>, world, h)
    /\ budget' = budget - 1
    /\ UNCHANGED <<runcmd, cli, call, runtime, server, creators>>

\* a client connects: handle_connect runs
Connect(c) ==
    /\ budget > 0
    /\ c \notin clients
    /\ \E w \in WebWorlds(runtime, <<>>) : SocketHandled("connect", c, w, handle_connect(w))
    /\ clients' = clients \cup {c}
    /\ outbox' = [outbox EXCEPT ![c] = last'.did.emits]

\* a client disconnects: handle_disconnect only prints
Disconnect(c) ==
    /\ c \in clients
    /\ clients' = clients \ {c}
    /\ UNCHANGED <<runcmd, cli, call, runtime, outbox, last, budget, server, creators>>

\* request_containers with its events emitted with broadcast=True
RequestContainers_broadcast(c) ==
    /\ budget > 0
    /\ c \in clients
    /\ \E w \in WebWorlds(runtime, <<>>) :
          SocketHandled("request_containers", c, w, handle_request_containers(w))
    /\ outbox' = [d \in Sids |-> IF d \in clients THEN outbox[d] \o last'.did.emits
                                 ELSE outbox[d]]
    /\ UNCHANGED clients

\* a client sends request_containers
RequestContainers(c) ==
    /\ budget > 0
    /\ c \in clients
    /\ \E w \in WebWorlds(runtime, <<>>) :
          SocketHandled("request_containers", c, w, handle_request_containers(w))
    /\ outbox' = [outbox EXCEPT ![c] = @ \o last'.did.emits]
    /\ UNCHANGED clients

\* a client sends refresh_containers
RefreshContainers(c) ==
    /\ budget > 0
    /\ c \in clients
    /\ \E w \in WebWorlds(runtime, <<>>) :
          SocketHandled("refresh_containers", c, w, handle_refresh_containers(w))
    /\ outbox' = [outbox EXCEPT ![c] = @ \o last'.did.emits]
    /\ UNCHANGED clients

\* the runtime's containers change behind the server's back
RuntimeChange ==
    /\ \E rt \in RuntimeListings : rt # runtime /\ runtime' = rt
    /\ UNCHANGED <<runcmd, cli, call, clients, outbox, last, budget, server, creators>>

NextWeb ==
    \/ \E c \in Sids : Connect(c)
    \/ \E c \in Sids : Disconnect(c)
    \/ \E c \in Sids : RequestContainers(c)
    \/ \E c \in Sids : RefreshContainers(c)
    \/ RuntimeChange

SpecWeb == Init /\ [][NextWeb]_vars

-----------------------------------------------------------------------------
(* run_agent_command and the HTTP endpoints built on it, each applied once   *)
(* to every outcome of the child process, for every listing of the runtime  *)

ArgVmid(args) == IF Len(args) > 1 THEN args[2] ELSE <<>>

CallRunAgentCommand ==
    /\ last.op = "none"
    /\ \E rt \in RuntimeListings, args \in ApiArgs :
          \E w \in AllWorlds(rt, ArgVmid(args)) :
              /\ runtime' = rt
              /\ last' = Ran("run_agent_command", "", args, w, Handled(<<>>, <<>>, PyNone))
              /\ call' = [pc |-> "returned", method |-> "run_agent_command",
                          vmid |-> <<>>, env |-> w.env,
                          ret |-> run_agent_command(args, w)]
    /\ UNCHANGED <<runcmd, cli, clients, outbox, budget, server, creators>>

\* an HTTP request to one of the endpoints built on run_agent_command
ApiRequest ==
    /\ last.op = "none"
    /\ \E rt \in RuntimeListings, args \in ApiArgs :
          \E w \in AllWorlds(rt, ArgVmid(args)) :
              /\ runtime' = rt
              /\ last' = Ran("api", "", args, w, api_endpoint(args, w))
    /\ UNCHANGED <<runcmd, cli, call, clients, outbox, budget, server, creators>>

\* an HTTP POST to the configure-opencode endpoint; last.args keeps the vmid
\* and the providers the request carried, and the logins of the providers in
\* bad are refused
ApiConfigureOpencode ==
    /\ last.op = "none"
    /\ \E rt \in RuntimeListings, v \in ApiVmids, body \in ApiBodies,
          bad \in SUBSET Providers :
          \E w \in AllWorlds(rt, v) :
              /\ runtime' = rt
              /\ last' = Ran("api_configure", "",
                             <<v>> \o ProvidersOf(body, PyGet(body, "providers")),
                             World(w.fate, [w.env EXCEPT !.authbad = bad]),
                             api_configure_opencode(
                                 v, body, World(w.fate, [w.env EXCEPT !.authbad = bad])))
    /\ UNCHANGED <<runcmd, cli, call, clients, outbox, budget, server, creators>>

NextGateway == CallRunAgentCommand \/ ApiRequest \/ ApiConfigureOpencode

SpecGateway == Init /\ [][NextGateway]_vars

-----------------------------------------------------------------------------
(* The web server under concurrent requests: socketio.run serves each       *)
(* request on a thread of its own (Werkzeug, async_mode "threading"), or,   *)
(* with eventlet installed, on one OS thread that subprocess.run blocks     *)

ServerModes == {"threading", "eventlet"}

\* the command lines of the requests that name a container or list them all
FlightArgs ==
    {<<(<<"list">>)>>}
    \cup {<<a, v>> : a \in {<<"info">>, <<"monitor">>, <<"start">>}, v \in ApiVmids}

\* SocketIO(app, ...) picks the async mode from what is installed
ServerStart ==
    /\ server.mode = "unset"
    /\ \E m \in ServerModes : server' = [server EXCEPT !.mode = m]
    /\ UNCHANGED <<runcmd, cli, call, runtime, clients, outbox, last, budget, creators>>

\* a request arrives and its handler calls run_agent_command: the child is
\* started and will issue, one after the other, the commands of its action
Accept(t) ==
    /\ server.mode # "unset"
    /\ server.req[t].pc = "idle"
    /\ server.mode = "eventlet" => \A u \in Tids : server.req[u].pc = "idle"
    /\ \E args \in FlightArgs, rt \in RuntimeListings \ {<<>>} :
          server' = [server EXCEPT !.req[t] =
                        [pc |-> "child", args |-> args,
                         todo |-> main(<<Script>> \o args,
                                       RuntimeEnv(rt, ArgVmid(args), TRUE)).cmds,
                         cur |-> NoCmd]]
    /\ UNCHANGED <<runcmd, cli, call, runtime, clients, outbox, last, budget, creators>>

\* the child's run_command starts its next external command
Issue(t) ==
    /\ server.req[t].pc = "child"
    /\ server.req[t].cur = NoCmd
    /\ server.req[t].todo # <<>>
    /\ server' = [server EXCEPT !.req[t].cur = Head(server.req[t].todo),
                                !.req[t].todo = Tail(server.req[t].todo)]
    /\ UNCHANGED <<runcmd, cli, call, runtime, clients, outbox, last, budget, creators>>

\* the external command ends and run_command returns
Complete(t) ==
    /\ server.req[t].pc = "child"
    /\ server.req[t].cur # NoCmd
    /\ server' = [server EXCEPT !.req[t].cur = NoCmd]
    /\ UNCHANGED <<runcmd, cli, call, runtime, clients, outbox, last, budget, creators>>

\* the child exits and the handler answers
Respond(t) ==
    /\ server.req[t].pc = "child"
    /\ server.req[t].cur = NoCmd
    /\ server.req[t].todo = <<>>
    /\ server' = [server EXCEPT !.req[t] = IdleRequest]
    /\ UNCHANGED <<runcmd, cli, call, runtime, clients, outbox, last, budget, creators>>

NextFlight ==
    \/ ServerStart
    \/ \E t \in Tids : Accept(t)
    \/ \E t \in Tids : Issue(t)
    \/ \E t \in Tids : Complete(t)
    \/ \E t \in Tids : Respond(t)

SpecFlight == Init /\ [][NextFlight]_vars

-----------------------------------------------------------------------------
(* create_container called without a VMID by processes running side by      *)
(* side, against one runtime: each external command is a step                *)

\* the runtimes the callers meet
CreateRuntimes ==
    {<<>>, <<Container(1001, "running", "web")>>, <<Container(101, "stopped", "api")>>}

\* the ids of the runtime's containers
RuntimeIds == {runtime[k].vmid : k \in 1..Len(runtime)}

\* the runtime as it is before the first call
Populate ==
    /\ \A p \in Creators : creators[p].pc = "idle"
    /\ runtime = <<>>
    /\ \E rt \in CreateRuntimes \ {<<>>} : runtime' = rt
    /\ UNCHANGED <<runcmd, cli, call, clients, outbox, last, budget, server, creators>>

\* create_container(project_name) is called: `if not vmid:` enters the loop
CreateCall(p) ==
    /\ creators[p].pc = "idle"
    /\ creators' = [creators EXCEPT ![p].pc = "checking", ![p].i = RangeFirst]
    /\ UNCHANGED <<runcmd, cli, call, runtime, clients, outbox, last, budget, server>>

\* one turn of the loop: `pct list | grep -q '^{i}'` against the runtime as it
\* is now; a non-zero return code selects i
CheckVmid(p) ==
    /\ creators[p].pc = "checking"
    /\ creators' =
          IF ~InRange(creators[p].i)
          THEN [creators EXCEPT ![p].pc = "done"]
          ELSE IF run_command(CheckProcess(RuntimeEnv(runtime, <<>>, TRUE),
                                           creators[p].i), TRUE).rc # 0
          THEN [creators EXCEPT ![p].pc = "cloning",
                                ![p].vmid = <<ToString(creators[p].i)>>]
          ELSE [creators EXCEPT ![p].i = creators[p].i + 1]
    /\ UNCHANGED <<runcmd, cli, call, runtime, clients, outbox, last, budget, server>>

\* `pct clone 9000 {vmid} --hostname {project_name}`: the runtime creates the
\* container, or refuses when the id is taken
CloneVmid(p) ==
    /\ creators[p].pc = "cloning"
    /\ IF creators[p].i \in RuntimeIds
       THEN /\ creators' = [creators EXCEPT ![p].pc = "done", ![p].cloned = TRUE]
            /\ UNCHANGED runtime
       ELSE /\ creators' = [creators EXCEPT ![p].pc = "starting", ![p].cloned = TRUE]
            /\ runtime' = Append(runtime, Container(creators[p].i, "stopped", "proj"))
    /\ UNCHANGED <<runcmd, cli, call, clients, outbox, last, budget, server>>

\* `pct start {vmid}`, the wait, the address lookup and the return
StartVmid(p) ==
    /\ creators[p].pc = "starting"
    /\ creators' = [creators EXCEPT ![p].pc = "done", ![p].ok = TRUE]
    /\ runtime' = [k \in 1..Len(runtime) |->
                      IF runtime[k].vmid = creators[p].i
                      THEN [runtime[k] EXCEPT !.status = "running"]
                      ELSE runtime[k]]
    /\ UNCHANGED <<runcmd, cli, call, clients, outbox, last, budget, server>>

NextCreate ==
    \/ Populate
    \/ \E p \in Creators : CreateCall(p)
    \/ \E p \in Creators : CheckVmid(p)
    \/ \E p \in Creators : CloneVmid(p)
    \/ \E p \in Creators : StartVmid(p)

SpecCreate == Init /\ [][NextCreate]_vars

-----------------------------------------------------------------------------
(* Properties *)

\* the enumeration the web server asked for went through: the script ran to
\* its end and `pct list` exited with 0
Healthy(w) == w.fate = "run" /\ run_command(w.env.list, TRUE).rc = 0

\* the snapshot list_containers builds from the runtime a handler met
SnapshotOf(w) == list_containers(w.env).value

EventNames(emits) == {emits[i].name : i \in 1..Len(emits)}

SocketOps == {"connect", "request_containers", "refresh_containers"}

\* C1: whenever a client connects, it is at once sent exactly one
\* containers_update event carrying the current snapshot, whatever the state
\* of the runtime (an empty snapshot included).
C1_ConnectSendsSnapshot ==
    (last.op = "connect" /\ Healthy(last.world))
        => last.did.emits = <<Event("containers_update", SnapshotOf(last.world))>>

\* C2: every external command launched through run_command, in both capture
\* modes, is bounded by the 30-unit timeout: the caller never waits longer, and
\* a process that outlives the timeout makes run_command return the timeout
\* failure.
C2_TimeoutBoundsEveryCommand ==
    /\ runcmd.pc = "waiting" => runcmd.elapsed <= Timeout
    /\ (runcmd.pc = "returned" /\ runcmd.p.launch /\ runcmd.p.dur > Timeout)
          => runcmd.ret = TimeoutResult

\* the enumeration command failed: non-zero exit, timeout or launch failure
EnumerationFailed(env) == run_command(env.list, TRUE).rc # 0

\* a runtime that successfully reports that there are no containers
EmptyRuntimeEnv == [BaseEnv EXCEPT !.list = Ok(HeaderLine \o <<NL>>)]

\* C3: when the enumeration command fails, what list_containers returns, and
\* what the `list` action prints, differs from what they give when the runtime
\* successfully reports no containers.
C3_ListFailureDistinguishable ==
    /\ (call.pc = "returned" /\ call.method = "list_containers"
            /\ EnumerationFailed(call.env))
          => call.ret.value # list_containers(EmptyRuntimeEnv).value
    /\ (cli.pc = "exited" /\ Len(cli.argv) >= 2 /\ cli.argv[2] = <<"list">>
            /\ EnumerationFailed(cli.env))
          => cli.res.stdout # main(<<Script, <<"list">>>>, EmptyRuntimeEnv).stdout

ManagerMethods ==
    {"list_containers", "get_container_info", "monitor_resources", "backup_container"}

\* C4: for every outcome of the external commands, list_containers,
\* get_container_info, monitor_resources and backup_container return a value
\* and never raise.
C4_MethodsNeverRaise ==
    (call.pc = "returned" /\ call.method \in ManagerMethods) => ~call.ret.raised

\* the runtime does not know the id: `pct status` exits non-zero and prints no
\* status
Unrecognised(env) ==
    /\ env.status.launch /\ env.status.dur <= Timeout
    /\ env.status.rc # 0 /\ env.status.out = <<>>

\* a result that reports an error
IsErrorResult(x) ==
    /\ x.py = "dict"
    /\ \/ "error" \in DOMAIN x.v
       \/ ("success" \in DOMAIN x.v /\ x.v["success"] = PyBool(FALSE))

\* C5: get_container_info for an id the runtime does not recognise returns an
\* error result, not a detail record.
C5_UnknownIdIsError ==
    (call.pc = "returned" /\ call.method = "get_container_info"
        /\ Unrecognised(call.env))
        => (~call.ret.raised /\ IsErrorResult(call.ret.value))

\* the arguments an action needs after its name
RequiredArgs(action) ==
    CASE action = <<"list">> -> 0
      [] action = <<"setup-template">> -> 2
      [] OTHER -> 1

KnownActions == {<<available_actions[i]>> : i \in 1..Len(available_actions)}

\* no action, an unknown action, or a known action without its arguments
Malformed(argv) ==
    \/ Len(argv) < 2
    \/ argv[2] \notin KnownActions
    \/ Len(argv) - 2 < RequiredArgs(argv[2])

\* the printed document is an object with an 'error' or a false 'success'
PrintedFailure(stdout) ==
    Len(stdout) = 1 /\ stdout[1].js = "object" /\ IsErrorResult(FromJson(stdout[1]))

\* C6: the script exits with a non-zero status for every malformed invocation,
\* and with 0 for a well-formed invocation whose action succeeds.
C6_ExitStatus ==
    cli.pc = "exited" =>
        /\ Malformed(cli.argv) => cli.res.exit # 0
        /\ (~Malformed(cli.argv) /\ ~PrintedFailure(cli.res.stdout)) => cli.res.exit = 0

\* the action named by argv raises an exception while it runs
ActionRaises(argv, env) ==
    /\ Len(argv) >= 3
    /\ \/ argv[2] = <<"info">> /\ get_container_info(argv[3], env).raised
       \/ argv[2] = <<"monitor">> /\ monitor_resources(argv[3], env).raised

\* C7: for every invocation that names an action and every outcome of the
\* external commands, main prints exactly one JSON document and lets no
\* exception escape; an exception raised while the action runs becomes a JSON
\* object whose 'error' field holds its message.
C7_MainPrintsOneJsonDocument ==
    (cli.pc = "exited" /\ Len(cli.argv) >= 2) =>
        /\ Len(cli.res.stdout) = 1
        /\ cli.res.stdout[1].js # "invalid"
        /\ ~cli.res.escaped
        /\ ActionRaises(cli.argv, cli.env)
              => cli.res.stdout = <<[js |-> "object",
                                     v |-> [error |-> [js |-> "string",
                                                       v |-> IndexErrorMsg]]]>>

\* C7's case: `info` on a status output that is only whitespace raised
\* IndexError and main printed it as an error object
C7_Witness ==
    /\ cli.pc = "exited" /\ Len(cli.argv) >= 3 /\ cli.argv[2] = <<"info">>
    /\ ActionRaises(cli.argv, cli.env)
    /\ Len(cli.res.stdout) = 1 /\ cli.res.exit = 0

\* stdout holds exactly one JSON document
ValidJson(chunks) == Len(chunks) = 1 /\ chunks[1].js # "invalid"

\* {'success': False, 'error': <message>}
IsAgentFailure(x) ==
    /\ x.py = "dict"
    /\ DOMAIN x.v = {"success", "error"}
    /\ x.v["success"] = PyBool(FALSE)
    /\ x.v["error"].py = "str"

\* the child exited with 0 having written one JSON document
ChildSucceeded(child) ==
    child.launch /\ child.dur <= AgentTimeout /\ child.rc = 0 /\ ValidJson(child.out)

\* C8: run_agent_command never raises; when the child exits with 0 and valid
\* JSON it returns the parsed output unmodified, and in every failure case
\* (invalid JSON, non-zero exit, timeout, launch failure) an object with
\* success = false and an error message.
C8_RunAgentCommandTotal ==
    (call.pc = "returned" /\ call.method = "run_agent_command") =>
        /\ ~call.ret.raised
        /\ ChildSucceeded(ScriptProcess(last.args, last.world))
              => call.ret.value = FromJson(ScriptProcess(last.args, last.world).out[1])
        /\ ~ChildSucceeded(ScriptProcess(last.args, last.world))
              => IsAgentFailure(call.ret.value)

\* C8's case: the child exited with 0 but wrote no JSON document, and
\* run_agent_command returned the failure object
C8_Witness ==
    /\ call.pc = "returned" /\ call.method = "run_agent_command"
    /\ last.world.fate = "garbled"
    /\ ~call.ret.raised /\ IsAgentFailure(call.ret.value)

\* C9: on refresh_containers the requesting client is sent a containers_update
\* with the freshly enumerated snapshot and a notification of success; when
\* the enumeration fails it is sent a notification of the failure.
C9_RefreshAnswersRequester ==
    last.op = "refresh_containers" =>
        IF Healthy(last.world)
        THEN /\ Len(last.did.emits) = 2
             /\ last.did.emits[1] = Event("containers_update", SnapshotOf(last.world))
             /\ last.did.emits[2].name = "notification"
        ELSE EventNames(last.did.emits) \cap {"notification", "error"} # {}

\* C10: when the enumeration fails during connect, request_containers or
\* refresh_containers, the client is sent no containers_update and is sent an
\* error or notification event reporting the failure.
C10_FailureKeepsViewAndReports ==
    (last.op \in SocketOps /\ ~Healthy(last.world)) =>
        /\ "containers_update" \notin EventNames(last.did.emits)
        /\ EventNames(last.did.emits) \cap {"notification", "error"} # {}

\* the records of a snapshot, as a set: two snapshots holding the same records
\* in different orders are the same set
AsSet(snapshot) == {snapshot.v[i] : i \in 1..Len(snapshot.v)}

\* a poll that went through: the server enumerated the runtime on a
\* request_containers message and the enumeration succeeded
SuccessfulPoll(h) == h.op = "request_containers" /\ Healthy(h.world)

\* the events a poll that retained `before` must emit when it finds `after`
ChangeEvents(before, after) ==
    IF AsSet(before) # AsSet(after)
    THEN <<Event("containers_update", after)>>
    ELSE <<>>

IsUpdate(e) == e.name = "containers_update"

\* the containers_update events among those sent to a client
Updates(events) == SelectSeq(events, IsUpdate)

\* C11: after every successful poll a change event is emitted to the
\* subscribers if and only if the new snapshot differs, as a set keyed by id,
\* from the one retained by the previous successful poll; the first successful
\* poll always emits; the event carries the full new snapshot.
C11_PollEmitsIffChanged ==
    [][(budget' # budget /\ SuccessfulPoll(last'))
        => /\ (last.op = "connect" /\ budget = MaxHandlerRuns - 1)
                => \A c \in clients' :
                      Updates(outbox'[c]) = Updates(outbox[c])
                          \o <<Event("containers_update", SnapshotOf(last'.world))>>
           /\ SuccessfulPoll(last)
                => \A c \in clients' :
                      Updates(outbox'[c]) = Updates(outbox[c])
                          \o ChangeEvents(SnapshotOf(last.world), SnapshotOf(last'.world))]_vars

\* the runtime commands a handler's run of the script issued
HandlerCmds(h) ==
    IF h.world.fate = "run" THEN main(<<Script, <<"list">>>>, h.world.env).cmds ELSE <<>>

C13_OneCallInFlightPerId ==
    \A t \in Tids, u \in Tids :
        (t # u /\ server.req[t].cur # NoCmd /\ server.req[u].cur # NoCmd
            /\ server.req[t].cur.arg # <<>>)
            => server.req[t].cur.arg # server.req[u].cur.arg

IsIpCmd(c) == c.c = "ip"

\* the address lookups among the commands a call issued
IpCmds(cmds) == SelectSeq(cmds, IsIpCmd)

IsRunningRecord(rec) == rec.v["status"] = PyStr(<<"running">>)

\* the lookups a list of records calls for: one per running record, in order
LookupsFor(recs) ==
    [i \in 1..Len(SelectSeq(recs, IsRunningRecord)) |->
        Cmd("ip", SelectSeq(recs, IsRunningRecord)[i].v["vmid"].v)]

\* C14: an address lookup is issued for a container only when its parsed
\* status is exactly 'running', in list_containers and in get_container_info;
\* for any other status no lookup is run, the record's address is empty and
\* no error is reported.
C14_LookupOnlyWhenRunning ==
    /\ (call.pc = "returned" /\ call.method = "list_containers")
          => /\ ~call.ret.raised
             /\ IpCmds(call.ret.cmds) = LookupsFor(call.ret.value.v)
             /\ \A i \in 1..Len(call.ret.value.v) :
                   ~IsRunningRecord(call.ret.value.v[i])
                      => /\ call.ret.value.v[i].v["ip"] = PyStr(<<>>)
                         /\ "error" \notin DOMAIN call.ret.value.v[i].v
    /\ (call.pc = "returned" /\ call.method = "get_container_info" /\ call.ret.raised)
          => IpCmds(call.ret.cmds) = <<>>
    /\ (call.pc = "returned" /\ call.method = "get_container_info" /\ ~call.ret.raised)
          => /\ IpCmds(call.ret.cmds) = LookupsFor(<<call.ret.value>>)
             /\ ~IsRunningRecord(call.ret.value)
                   => /\ call.ret.value.v["ip"] = PyStr(<<>>)
                      /\ "error" \notin DOMAIN call.ret.value.v

\* C14's case: get_container_info on a container reported as stopped returned
\* a record without having looked the address up
C14_Witness ==
    /\ call.pc = "returned" /\ call.method = "get_container_info"
    /\ ~call.ret.raised
    /\ call.ret.value.v["status"] = PyStr(<<"stopped">>)
    /\ call.ret.cmds = <<Cmd("status", call.vmid), Cmd("config", call.vmid)>>

\* a container row of `pct list`: the id, the status, the lock when one is
\* held, and the name
IsRow(line) == ReMatchDigits(line) /\ Len(SplitWs(line)) \in {3, 4}

\* the listing is the header and container rows, nothing else
IsListing(text) ==
    \A k \in 1..Len(SplitNL(text)) :
        \/ SplitNL(text)[k] \in {<<>>, HeaderLine}
        \/ IsRow(SplitNL(text)[k])

\* a row of a container other than the template
IsListedContainer(line) == IsRow(line) /\ SplitWs(line)[1] # template_id

\* the id, status and name a row stands for: the name is the last column
RowRecord(line) ==
    [vmid |-> PyStr(SplitWs(line)[1]), status |-> PyStr(SplitWs(line)[2]),
     name |-> PyStr(SplitWs(line)[Len(SplitWs(line))])]

\* the rows list_containers has to report, in the order of the listing
ListedRows(text) == SelectSeq(SplitNL(text), IsListedContainer)

\* C15: when the enumeration succeeds, list_containers returns exactly one
\* record for every container row of the listing other than the template, in
\* the order of the listing, each with the id, status and name of its row.
C15_OneRecordPerRow ==
    (call.pc = "returned" /\ call.method = "list_containers"
        /\ ~EnumerationFailed(call.env) /\ IsListing(call.env.list.out))
        => /\ Len(call.ret.value.v) = Len(ListedRows(call.env.list.out))
           /\ \A i \in 1..Len(call.ret.value.v) :
                 /\ i <= Len(ListedRows(call.env.list.out))
                 /\ \A f \in {"vmid", "status", "name"} :
                       call.ret.value.v[i].v[f]
                          = RowRecord(ListedRows(call.env.list.out)[i])[f]

\* C16: when create_container is called without a VMID, the candidate VMIDs
\* are exactly the integers 1001 through 9999 inclusive: 1000 is never a
\* candidate and 9999 is one.
C16_CandidatesAre1001To9999 ==
    (call.pc = "returned" /\ call.method = "in_range")
        => \A i \in CandidateProbes :
              call.vmid = <<ToString(i)>>
                 => call.ret.value = PyBool(i \in 1001..9999)

\* the seven actions of the command line
SevenActions ==
    <<"list", "create", "info", "configure-opencode", "setup-template", "monitor", "backup">>

\* the error object for an action the script does not know: it names the
\* action and lists the seven it has
UnknownActionError(action) ==
    PyDict([error |-> PyStr(<<"Unknown", SP, "action:", SP>> \o action),
            available_actions |->
                PyList([i \in 1..Len(SevenActions) |-> PyStr(<<SevenActions[i]>>)])])

\* C17: the script dispatches exactly the seven actions list, create, info,
\* configure-opencode, setup-template, monitor and backup; any other action,
\* the start, stop and restart of the dashboard included, runs no runtime
\* command and yields an error object that names the unknown action and lists
\* the available ones.
C17_SevenActionsOnly ==
    (cli.pc = "exited" /\ Len(cli.argv) >= 2) =>
        IF \E i \in 1..Len(SevenActions) : cli.argv[2] = <<SevenActions[i]>>
        THEN /\ Len(cli.res.stdout) = 1
             /\ cli.res.stdout[1].js = "object"
                   => "available_actions" \notin DOMAIN cli.res.stdout[1].v
        ELSE /\ cli.res.cmds = <<>>
             /\ Len(cli.res.stdout) = 1
             /\ FromJson(cli.res.stdout[1]) = UnknownActionError(cli.argv[2])

\* C17's case: the script was run as `start 101` and answered with the
\* unknown-action error
C17_Witness ==
    /\ cli.pc = "exited" /\ Len(cli.argv) = 3
    /\ cli.argv[2] = <<"start">>
    /\ cli.res.cmds = <<>>
    /\ FromJson(cli.res.stdout[1]) = UnknownActionError(<<"start">>)

\* a run of the script's create action
CreateRun ==
    cli.pc = "exited" /\ Len(cli.argv) >= 3 /\ cli.argv[2] = <<"create">>

\* the command before the k-th one is c, and it exited with 0
ComesAfter(k, c, p) ==
    k > 1 /\ cli.res.cmds[k - 1].c = c /\ run_command(p, TRUE).rc = 0

\* the command c was issued, failed, and was not the last
FollowedAfterFailure(c, p) ==
    /\ run_command(p, TRUE).rc # 0
    /\ \E k \in 1..(Len(cli.res.cmds) - 1) : cli.res.cmds[k].c = c

\* C18: in create_container the start command is issued only after the clone
\* command exited with 0, and the address lookup only after the start command
\* exited with 0; after a failed clone or a failed start no further command is
\* issued, and the result has success = true only if both exited with 0.
C18_CloneThenStartThenLookup ==
    CreateRun =>
        /\ \A k \in 1..Len(cli.res.cmds) :
              /\ cli.res.cmds[k].c = "start" => ComesAfter(k, "clone", cli.env.clone)
              /\ cli.res.cmds[k].c = "ip" => ComesAfter(k, "start", cli.env.start)
        /\ ~FollowedAfterFailure("clone", cli.env.clone)
        /\ ~FollowedAfterFailure("start", cli.env.start)
        /\ FromJson(cli.res.stdout[1]).v["success"] = PyBool(TRUE)
              => /\ run_command(cli.env.clone, TRUE).rc = 0
                 /\ run_command(cli.env.start, TRUE).rc = 0
                 /\ \E k \in 1..Len(cli.res.cmds) : cli.res.cmds[k].c = "clone"
                 /\ \E k \in 1..Len(cli.res.cmds) : cli.res.cmds[k].c = "start"

\* C18's case: the clone exited with 0 and the start did not: the start was
\* the last command and the result is a failure
C18_Witness ==
    /\ CreateRun
    /\ run_command(cli.env.clone, TRUE).rc = 0
    /\ run_command(cli.env.start, TRUE).rc # 0
    /\ Len(cli.res.cmds) >= 2
    /\ cli.res.cmds[Len(cli.res.cmds)].c = "start"
    /\ FromJson(cli.res.stdout[1]).v["success"] = PyBool(FALSE)

\* the ids the containers of a listing use
UsedIds(text) ==
    {WordVal(SplitNL(text)[k][1]) :
        k \in {j \in 1..Len(SplitNL(text)) : ReMatchDigits(SplitNL(text)[j])}}

\* the smallest candidate id no container of the listing uses
SmallestFree(text) ==
    CHOOSE i \in RangeFirst..(RangeFirst + Cardinality(UsedIds(text))) :
        /\ i \notin UsedIds(text)
        /\ \A j \in RangeFirst..(i - 1) : j \in UsedIds(text)

\* C19: when create_container is called without a VMID, the VMID it clones
\* to is the smallest candidate id that no container in the runtime's listing
\* uses, for every listing and every outcome of the availability checks.
C19_ClonesToSmallestFreeId ==
    (CreateRun /\ Len(cli.argv) = 3) =>
        \A k \in 1..Len(cli.res.cmds) :
            cli.res.cmds[k].c = "clone"
               => cli.res.cmds[k].arg = <<ToString(SmallestFree(cli.env.list.out))>>

\* C20: two create_container calls that run concurrently without an explicit
\* VMID never both select and clone to the same VMID, under every
\* interleaving of their availability checks and clone commands.
C20_ConcurrentCreatesDiffer ==
    \A p \in Creators, q \in Creators :
        (p # q /\ creators[p].cloned /\ creators[q].cloned)
            => creators[p].vmid # creators[q].vmid

\* whether `opencode auth login --provider p` fails in env
LoginFails(env, p) == run_command(AuthProcess(env, p), TRUE).rc # 0

\* the providers of P up to and including the first whose login fails
RECURSIVE UpToFirstFailure(_, _)
UpToFirstFailure(P, env) ==
    IF P = <<>> THEN <<>>
    ELSE IF LoginFails(env, Head(P)) THEN <<Head(P)>>
    ELSE <<Head(P)>> \o UpToFirstFailure(Tail(P), env)

\* the providers cmds attempted a login for, in the order of the attempts
LoginsOf(cmds) ==
    LET auths == SelectSeq(cmds, LAMBDA c : c.c = "auth")
    IN  [i \in 1..Len(auths) |-> auths[i].arg]

\* the runtime commands of the script run that the configure-opencode
\* endpoint started for vmid and the providers P
ConfigureCmds(vmid, P, world) ==
    main(<<Script>> \o ConfigureArgs(vmid, P), world.env).cmds

\* cmds logs in to the providers of P in order up to the first failure, and
\* when no login fails the version check comes last, after all of them
LogsInTo(cmds, vmid, P, env) ==
    /\ LoginsOf(cmds) = UpToFirstFailure(P, env)
    /\ (\A i \in 1..Len(P) : ~LoginFails(env, P[i]))
          => cmds = [i \in 1..Len(P) |-> Cmd("auth", P[i])] \o <<Cmd("version", vmid)>>

\* C21: for a dashboard configure-opencode request carrying a list of
\* providers P, the manager attempts a login for exactly the providers in P,
\* in order, stopping at the first one whose login fails; when all logins
\* succeed, every provider in P has been configured before the version check.
C21_LoginForEveryProvider ==
    (last.op = "api_configure" /\ last.world.fate = "run" /\ Len(last.args) > 1)
        => LogsInTo(ConfigureCmds(Head(last.args), Tail(last.args), last.world),
                    Head(last.args), Tail(last.args), last.world.env)

=============================================================================
